---- MODULE Spec2Model ----
(***************************************************************************)
(* Model of script.js: the subtitle/transcript synchroniser.               *)
(*                                                                         *)
(* Strings are sequences of characters.  A character is a one-character    *)
(* TLA+ string; the few characters that are not printable ASCII have a     *)
(* spelled-out name ("LF", "EMDASH", "LDQUO", "RDQUO").                    *)
(***************************************************************************)
EXTENDS Integers, Sequences, FiniteSets, TLC

\* ------------------------------------------------------------------------
\* Characters
\* ------------------------------------------------------------------------
SPACE == " "
LF == "LF"
HYPHEN == "-"
EMDASH == "EMDASH"
DQUOTE == "\""
LDQUO == "LDQUO"
RDQUO == "RDQUO"

LowerLetters ==
  << "a", "b", "c", "d", "e", "f", "g", "h", "i", "j", "k", "l", "m",
     "n", "o", "p", "q", "r", "s", "t", "u", "v", "w", "x", "y", "z" >>

UpperLetters ==
  << "A", "B", "C", "D", "E", "F", "G", "H", "I", "J", "K", "L", "M",
     "N", "O", "P", "Q", "R", "S", "T", "U", "V", "W", "X", "Y", "Z" >>

LetterSet == {LowerLetters[k] : k \in 1..26} \cup {UpperLetters[k] : k \in 1..26}

UpperSet == {UpperLetters[k] : k \in 1..26}

IsLetter(c) == c \in LetterSet

toLowerCase(c) ==
  IF c \in UpperSet
    THEN LowerLetters[CHOOSE k \in 1..26 : UpperLetters[k] = c]
    ELSE c

IsWhitespace(c) == c \in {SPACE, LF}

\* the empty JS string
EMPTY == << >>

\* the JS value null (traceback direction of a fresh cell, unset step field)
NULL == "null"

\* ------------------------------------------------------------------------
\* Generic helpers
\* ------------------------------------------------------------------------
Reverse(s) == [k \in 1..Len(s) |-> s[Len(s) + 1 - k]]

Range(s) == {s[k] : k \in 1..Len(s)}

Max2(a, b) == IF a >= b THEN a ELSE b

\* Math.max(0, a, b, c)
MathMax0(a, b, c) == Max2(Max2(0, a), Max2(b, c))

RECURSIVE Concat(_)
Concat(ss) == IF ss = << >> THEN << >> ELSE ss[1] \o Concat(Tail(ss))

\* Array.prototype.join(" ") on an array of strings
RECURSIVE joinSpace(_)
joinSpace(ws) ==
  IF ws = << >> THEN EMPTY
  ELSE IF Len(ws) = 1 THEN ws[1]
  ELSE ws[1] \o <<SPACE>> \o joinSpace(Tail(ws))

\* text.split(" ").filter(Boolean): the maximal runs of non-space characters
RECURSIVE splitFrom(_, _)
splitFrom(t, cur) ==
  IF t = << >>
    THEN (IF cur = << >> THEN << >> ELSE <<cur>>)
  ELSE IF t[1] = SPACE
    THEN (IF cur = << >> THEN << >> ELSE <<cur>>) \o splitFrom(Tail(t), << >>)
  ELSE splitFrom(Tail(t), Append(cur, t[1]))

splitWords(text) == splitFrom(text, << >>)

\* String.prototype.trim
RECURSIVE trimLeft(_)
trimLeft(t) ==
  IF t # << >> /\ IsWhitespace(t[1]) THEN trimLeft(Tail(t)) ELSE t

trim(t) == Reverse(trimLeft(Reverse(trimLeft(t))))

\* ------------------------------------------------------------------------
\* Text processing functions
\* ------------------------------------------------------------------------
cleanForComparison(word) ==
  LET kept == SelectSeq(word, IsLetter)
  IN  [k \in 1..Len(kept) |-> toLowerCase(kept[k])]

RECURSIVE quotesFrom(_, _)
quotesFrom(t, open) ==
  IF t = << >> THEN << >>
  ELSE IF t[1] = DQUOTE
    THEN <<IF open THEN LDQUO ELSE RDQUO>> \o quotesFrom(Tail(t), ~open)
  ELSE <<t[1]>> \o quotesFrom(Tail(t), open)

replaceStraightQuotes(text) ==
  quotesFrom([k \in 1..Len(text) |->
                IF text[k] \in {LDQUO, RDQUO} THEN DQUOTE ELSE text[k]], TRUE)

\* text.replace(/(^|\s)-(\s)/g, "$1EMDASH$2"): s is the position the regex
\* search resumes from; a match consumes the whitespace on both sides.
RECURSIVE hyphensFrom(_, _)
hyphensFrom(t, s) ==
  IF s > Len(t) THEN << >>
  ELSE IF s = 1 /\ Len(t) >= 2 /\ t[1] = HYPHEN /\ IsWhitespace(t[2])
    THEN <<EMDASH, t[2]>> \o hyphensFrom(t, 3)
  ELSE IF Len(t) >= s + 2 /\ IsWhitespace(t[s]) /\ t[s + 1] = HYPHEN
          /\ IsWhitespace(t[s + 2])
    THEN <<t[s], EMDASH, t[s + 2]>> \o hyphensFrom(t, s + 3)
  ELSE <<t[s]>> \o hyphensFrom(t, s + 1)

replaceHyphensWithDashes(text) == hyphensFrom(text, 1)

\* text.replace(/\s+/g, " ").trim()
RECURSIVE collapseWhitespace(_)
collapseWhitespace(t) ==
  IF t = << >> THEN << >>
  ELSE IF IsWhitespace(t[1])
    THEN <<SPACE>> \o collapseWhitespace(trimLeft(t))
  ELSE <<t[1]>> \o collapseWhitespace(Tail(t))

normalizeSpaces(text) == trim(collapseWhitespace(text))

removeLineBreaks(text) ==
  [k \in 1..Len(text) |-> IF text[k] = LF THEN SPACE ELSE text[k]]

\* handleSync, step 2: the revised text as a word sequence
revisedWordsOf(revisedText) ==
  splitWords(normalizeSpaces(removeLineBreaks(
      replaceHyphensWithDashes(replaceStraightQuotes(revisedText)))))

\* handleSync, step 2: the flattened original words
seq1GlobalOf(parsedSubsOriginal) ==
  Concat([k \in 1..Len(parsedSubsOriginal) |->
            splitWords(parsedSubsOriginal[k].text)])

\* ------------------------------------------------------------------------
\* Scoring constants
\* ------------------------------------------------------------------------
MATCH_SCORE == 2
MISMATCH_PENALTY == -1
GAP_PENALTY == -1

\* ------------------------------------------------------------------------
\* smithWaterman
\* ------------------------------------------------------------------------
\* the matrices and the running maximum before the first cell is filled
swStart(n, m) ==
  [ scoreMatrix     |-> [i \in 0..n |-> [j \in 0..m |-> 0]],
    tracebackMatrix |-> [i \in 0..n |-> [j \in 0..m |-> NULL]],
    maxScore        |-> 0,
    maxPos          |-> [i |-> 0, j |-> 0] ]

\* the score a diagonal move adds
substitutionScoreSwapped(word1, word2, matchScore, mismatchPenalty) ==
  IF word1 = word2 /\ word1 # EMPTY THEN mismatchPenalty ELSE matchScore

substitutionScore(word1, word2, matchScore, mismatchPenalty) ==
  IF word1 = word2 /\ word1 # EMPTY THEN matchScore ELSE mismatchPenalty

\* Math.max(0, match, deleteGap, insertGap)
currentScoreNoFloor(match, deleteGap, insertGap) ==
  Max2(match, Max2(deleteGap, insertGap))

currentScoreOf(match, deleteGap, insertGap) ==
  MathMax0(match, deleteGap, insertGap)

\* the traceback entry of a cell
directionOfUpFirst(currentScore, match, deleteGap, insertGap) ==
  IF currentScore = 0 THEN NULL
  ELSE IF currentScore = deleteGap THEN "up"
  ELSE IF currentScore = match THEN "diag"
  ELSE "left"

directionOf(currentScore, match, deleteGap, insertGap) ==
  IF currentScore = 0 THEN NULL
  ELSE IF currentScore = match THEN "diag"
  ELSE IF currentScore = deleteGap THEN "up"
  ELSE "left"

\* the test that moves the running maximum to the current cell
exceedsMaxScoreOrTies(currentScore, maxScore) == currentScore >= maxScore

exceedsMaxScore(currentScore, maxScore) == currentScore > maxScore

\* one iteration of the inner loop: cell (i, j), 1 <= i <= n, 1 <= j <= m
swCell(st, seq1, seq2, matchScore, mismatchPenalty, gapPenalty, i, j) ==
  LET word1 == cleanForComparison(seq1[i])
      word2 == cleanForComparison(seq2[j])
      match == st.scoreMatrix[i - 1][j - 1]
                 + substitutionScore(word1, word2, matchScore, mismatchPenalty)
      deleteGap == st.scoreMatrix[i - 1][j] + gapPenalty
      insertGap == st.scoreMatrix[i][j - 1] + gapPenalty
      currentScore == currentScoreOf(match, deleteGap, insertGap)
      better == exceedsMaxScore(currentScore, st.maxScore)
  IN  [ scoreMatrix     |-> [st.scoreMatrix EXCEPT ![i][j] = currentScore],
        tracebackMatrix |-> [st.tracebackMatrix EXCEPT ![i][j] =
                               directionOf(currentScore, match, deleteGap, insertGap)],
        maxScore        |-> IF better THEN currentScore ELSE st.maxScore,
        maxPos          |-> IF better THEN [i |-> i, j |-> j] ELSE st.maxPos ]

\* the k-th cell in the order the two nested loops visit them
cellRow(k, m) == ((k - 1) \div m) + 1
cellCol(k, m) == ((k - 1) % m) + 1

RECURSIVE swLoop(_, _, _, _, _, _)
swLoop(seq1, seq2, matchScore, mismatchPenalty, gapPenalty, k) ==
  IF k = 0
    THEN swStart(Len(seq1), Len(seq2))
    ELSE swCell(swLoop(seq1, seq2, matchScore, mismatchPenalty, gapPenalty, k - 1),
                seq1, seq2, matchScore, mismatchPenalty, gapPenalty,
                cellRow(k, Len(seq2)), cellCol(k, Len(seq2)))

smithWaterman(seq1, seq2, matchScore, mismatchPenalty, gapPenalty) ==
  swLoop(seq1, seq2, matchScore, mismatchPenalty, gapPenalty, Len(seq1) * Len(seq2))

\* ------------------------------------------------------------------------
\* traceback
\* ------------------------------------------------------------------------
stepType(w1, w2) == IF w1 = w2 /\ w1 # EMPTY THEN "match" ELSE "mismatch"

\* the step pushed at cell (i, j)
tracebackStep(seq1, seq2, direction, i, j) ==
  IF direction = "diag"
    THEN [ index1 |-> i - 1, index2 |-> j - 1,
           word1 |-> seq1[i], word2 |-> seq2[j],
           type |-> stepType(cleanForComparison(seq1[i]),
                             cleanForComparison(seq2[j])) ]
  ELSE IF direction = "up"
    THEN [ index1 |-> i - 1, index2 |-> j - 1,
           word1 |-> seq1[i], word2 |-> <<HYPHEN>>, type |-> "gap2" ]
  ELSE [ index1 |-> i - 1, index2 |-> j - 1,
         word1 |-> <<HYPHEN>>, word2 |-> seq2[j], type |-> "gap1" ]

\* the steps in the order the while loop pushes them
RECURSIVE tracebackLoop(_, _, _, _, _, _)
tracebackLoop(seq1, seq2, scoreMatrix, tracebackMatrix, i, j) ==
  IF ~(i > 0 /\ j > 0 /\ scoreMatrix[i][j] > 0) THEN << >>
  ELSE LET direction == tracebackMatrix[i][j]
           ni == IF direction \in {"diag", "up"} THEN i - 1 ELSE i
           nj == IF direction = "up" THEN j ELSE j - 1
       IN  <<tracebackStep(seq1, seq2, direction, i, j)>>
             \o tracebackLoop(seq1, seq2, scoreMatrix, tracebackMatrix, ni, nj)

tracebackNoReverse(seq1, seq2, scoreMatrix, tracebackMatrix, maxPos) ==
  tracebackLoop(seq1, seq2, scoreMatrix, tracebackMatrix, maxPos.i, maxPos.j)

traceback(seq1, seq2, scoreMatrix, tracebackMatrix, maxPos) ==
  Reverse(tracebackLoop(seq1, seq2, scoreMatrix, tracebackMatrix, maxPos.i, maxPos.j))

\* ------------------------------------------------------------------------
\* mapAlignmentToSegments
\* ------------------------------------------------------------------------
RECURSIVE wordCountBefore(_, _)
wordCountBefore(parsedSubsOriginal, k) ==
  IF k = 0 THEN 0
  ELSE wordCountBefore(parsedSubsOriginal, k - 1)
         + Len(splitWords(parsedSubsOriginal[k].text))

\* step 1: the [start, end) word range of every original segment
segmentBoundariesOf(parsedSubsOriginal) ==
  [k \in 1..Len(parsedSubsOriginal) |->
     [ start |-> wordCountBefore(parsedSubsOriginal, k - 1),
       end   |-> wordCountBefore(parsedSubsOriginal, k) ]]

\* the state the walk starts from (currentSegmentIndex counts from 0)
mapStart(parsedSubsOriginal) ==
  [ revisedSegments        |-> [k \in 1..Len(parsedSubsOriginal) |-> EMPTY],
    currentSegmentIndex    |-> 0,
    wordsForCurrentSegment |-> << >> ]

\* the test of the inner while loop: the word lies past the segment
segmentIsFinishedOffByOne(boundary, originalWordIndex) ==
  originalWordIndex > boundary.end

segmentIsFinished(boundary, originalWordIndex) ==
  originalWordIndex >= boundary.end

\* the inner while loop: store finished segments and move on
RECURSIVE mapAdvance(_, _, _)
mapAdvance(st, segmentBoundaries, originalWordIndex) ==
  IF st.currentSegmentIndex < Len(segmentBoundaries)
     /\ segmentIsFinished(segmentBoundaries[st.currentSegmentIndex + 1],
                          originalWordIndex)
    THEN mapAdvance(
           [ revisedSegments        |->
               [st.revisedSegments EXCEPT ![st.currentSegmentIndex + 1] =
                  joinSpace(st.wordsForCurrentSegment)],
             currentSegmentIndex    |-> st.currentSegmentIndex + 1,
             wordsForCurrentSegment |-> << >> ],
           segmentBoundaries, originalWordIndex)
    ELSE st

\* step 2: the for loop over the alignment, from step k on
RECURSIVE mapWalk(_, _, _, _)
mapWalk(alignment, k, segmentBoundaries, st) ==
  IF k > Len(alignment) THEN st
  ELSE LET step == alignment[k]
           st1  == mapAdvance(st, segmentBoundaries, step.index1)
       IN  IF st1.currentSegmentIndex >= Len(segmentBoundaries) THEN st1
           ELSE LET boundary == segmentBoundaries[st1.currentSegmentIndex + 1]
                    keep == /\ step.index1 >= boundary.start
                            /\ step.index1 < boundary.end
                            /\ step.word2 # EMPTY
                            /\ step.word2 # <<HYPHEN>>
                    st2 == IF keep
                             THEN [st1 EXCEPT !.wordsForCurrentSegment =
                                     Append(@, step.word2)]
                             ELSE st1
                IN  mapWalk(alignment, k + 1, segmentBoundaries, st2)

mapAlignmentToSegments(alignment, parsedSubsOriginal, seq1Global) ==
  LET st == mapWalk(alignment, 1, segmentBoundariesOf(parsedSubsOriginal),
                    mapStart(parsedSubsOriginal))
  IN  \* step 3: save the last collected segment
      IF st.currentSegmentIndex < Len(st.revisedSegments)
        THEN [st.revisedSegments EXCEPT ![st.currentSegmentIndex + 1] =
                joinSpace(st.wordsForCurrentSegment)]
        ELSE st.revisedSegments

\* ------------------------------------------------------------------------
\* handleSync: recovery of the missing initial words
\* ------------------------------------------------------------------------
syncedFirstSegmentWordsOf(revisedSegments) ==
  LET ws == splitWords(revisedSegments[1])
  IN  [k \in 1..Len(ws) |-> cleanForComparison(ws[k])]

RECURSIVE missingPrefixFrom(_, _, _)
missingPrefixFrom(revisedWords, syncedFirstSegmentWords, i) ==
  IF i > Len(revisedWords) THEN << >>
  ELSE IF cleanForComparison(revisedWords[i]) \in Range(syncedFirstSegmentWords)
    THEN << >>
  ELSE <<revisedWords[i]>>
         \o missingPrefixFrom(revisedWords, syncedFirstSegmentWords, i + 1)

missingPrefixOf(revisedWords, revisedSegments) ==
  missingPrefixFrom(revisedWords, syncedFirstSegmentWordsOf(revisedSegments), 1)

prefixRecoveryDisabled(revisedWords, revisedSegments) == revisedSegments

prefixRecoveryNoSeparator(revisedWords, revisedSegments) ==
  LET missingPrefix == missingPrefixOf(revisedWords, revisedSegments)
  IN  IF Len(missingPrefix) > 0
        THEN [revisedSegments EXCEPT ![1] = joinSpace(missingPrefix) \o @]
        ELSE revisedSegments

prefixRecovery(revisedWords, revisedSegments) ==
  LET missingPrefix == missingPrefixOf(revisedWords, revisedSegments)
  IN  IF Len(missingPrefix) > 0
        THEN [revisedSegments EXCEPT ![1] =
                joinSpace(missingPrefix) \o <<SPACE>> \o @]
        ELSE revisedSegments

\* ------------------------------------------------------------------------
\* Time conversion
\* ------------------------------------------------------------------------
\* a timestamp is held by its four numeric fields
timeToMillis(time) ==
  time.hours * 3600000 + time.minutes * 60000 + time.seconds * 1000 + time.ms

millisToTimeSrt(millis) ==
  LET totalSeconds == millis \div 1000
      totalMinutes == totalSeconds \div 60
  IN  [ hours |-> totalMinutes \div 60, minutes |-> totalMinutes % 60,
        seconds |-> totalSeconds % 60, ms |-> millis % 1000, separator |-> "," ]

millisToTimeVtt(millis) ==
  LET totalSeconds == millis \div 1000
      totalMinutes == totalSeconds \div 60
  IN  [ hours |-> totalMinutes \div 60, minutes |-> totalMinutes % 60,
        seconds |-> totalSeconds % 60, ms |-> millis % 1000, separator |-> "." ]

\* ------------------------------------------------------------------------
\* Subtitle parsing
\*
\* A file's content is held by the syntax it is written in, its header lines
\* and its cue blocks (index line, the two timestamps, text lines); NoContent
\* is the empty string.
\* ------------------------------------------------------------------------
NoContent == [syntax |-> "none", header |-> EMPTY, cues |-> << >>]

\* textBlock.replace(/\r?\n/g, " ").trim()
flatTextOf(lines) == trim(joinSpace(lines))

\* the pattern of parseSrt matches the blocks of an SRT file only
parseSrt(data) ==
  [ header |-> EMPTY,
    subtitles |->
      IF data.syntax = "srt"
        THEN [k \in 1..Len(data.cues) |->
                [ index |-> data.cues[k].index,
                  startMillis |-> timeToMillis(data.cues[k].start),
                  endMillis |-> timeToMillis(data.cues[k].end),
                  text |-> flatTextOf(data.cues[k].lines) ]]
        ELSE << >> ]

\* the pattern of parseSbv matches the blocks of an SBV file only
parseSbv(data) ==
  [ header |-> EMPTY,
    subtitles |->
      IF data.syntax = "sbv"
        THEN [k \in 1..Len(data.cues) |->
                [ index |-> k,
                  startMillis |-> timeToMillis(data.cues[k].start),
                  endMillis |-> timeToMillis(data.cues[k].end),
                  text |-> flatTextOf(data.cues[k].lines) ]]
        ELSE << >> ]

\* the cues parseVtt keeps: those with at least one non-blank text line,
\* numbered by their position among the "-->" lines
RECURSIVE vttCuesFrom(_, _)
vttCuesFrom(cues, k) ==
  IF k > Len(cues) THEN << >>
  ELSE LET textLines == SelectSeq([n \in 1..Len(cues[k].lines) |-> trim(cues[k].lines[n])],
                                  LAMBDA line : line # EMPTY)
       IN  (IF Len(textLines) > 0
              THEN << [ index |-> k,
                        startMillis |-> timeToMillis(cues[k].start),
                        endMillis |-> timeToMillis(cues[k].end),
                        text |-> trim(joinSpace(textLines)) ] >>
              ELSE << >>)
             \o vttCuesFrom(cues, k + 1)

\* parseVtt works line by line: every line before the first "-->" line is a
\* header line (in an SRT file the first index line, in an SBV file, which has
\* no "-->" line, every line), later lines that are no cue text are ignored
parseVtt(data) ==
  IF data.syntax = "vtt"
    THEN [header |-> data.header, subtitles |-> vttCuesFrom(data.cues, 1)]
  ELSE IF data.syntax = "srt"
    THEN [ header |-> IF Len(data.cues) > 0
                        THEN <<ToString(data.cues[1].index)>> ELSE EMPTY,
           subtitles |-> vttCuesFrom(data.cues, 1) ]
  ELSE IF data.syntax = "sbv"
    THEN [header |-> <<"SBV-FILE-TEXT">>, subtitles |-> << >>]
  ELSE [header |-> EMPTY, subtitles |-> << >>]

FORMAT_SRT == <<"s", "r", "t">>
FORMAT_SBV == <<"s", "b", "v">>
FORMAT_VTT == <<"v", "t", "t">>

\* the switch on originalSubtitleFormat in handleSync
parseWith(format, data) ==
  IF format = FORMAT_SBV THEN parseSbv(data)
  ELSE IF format = FORMAT_VTT THEN parseVtt(data)
  ELSE parseSrt(data)

\* ------------------------------------------------------------------------
\* Subtitle formatting
\* ------------------------------------------------------------------------
DEFAULT_MAX_CHARS == 50

\* text.lastIndexOf(" ", from) and text.indexOf(" ", from), counting from 0
lastIndexOfSpace(text, from) ==
  LET hits == {q \in 0..(Len(text) - 1) : q <= from /\ text[q + 1] = SPACE}
  IN  IF hits = {} THEN -1 ELSE CHOOSE q \in hits : \A h \in hits : h <= q

indexOfSpace(text, from) ==
  LET hits == {q \in 0..(Len(text) - 1) : q >= from /\ text[q + 1] = SPACE}
  IN  IF hits = {} THEN -1 ELSE CHOOSE q \in hits : \A h \in hits : q <= h

breakLines(text, maxChars) ==
  IF text = EMPTY \/ Len(text) <= maxChars THEN <<text>>
  ELSE LET middle == Len(text) \div 2
           left   == lastIndexOfSpace(text, middle)
           right  == indexOfSpace(text, middle)
           splitIndex ==
             IF left = -1 /\ right = -1 THEN middle
             ELSE IF left = -1 THEN right
             ELSE IF right = -1 THEN left
             ELSE IF middle - left <= right - middle THEN left ELSE right
       IN  << trim(SubSeq(text, 1, splitIndex)),
              trim(SubSeq(text, splitIndex + 2, Len(text))) >>

\* a formatted file is held by its format, its header and its blocks
NoResult == [format |-> "none", header |-> EMPTY, blocks |-> << >>]

formatSrt(header, subtitles) ==
  [ format |-> "srt", header |-> EMPTY,
    blocks |-> [k \in 1..Len(subtitles) |->
                  [ index |-> subtitles[k].index,
                    start |-> millisToTimeSrt(subtitles[k].startMillis),
                    end   |-> millisToTimeSrt(subtitles[k].endMillis),
                    lines |-> breakLines(subtitles[k].text, DEFAULT_MAX_CHARS) ]] ]

formatSbv(header, subtitles) ==
  [ format |-> "sbv", header |-> EMPTY,
    blocks |-> [k \in 1..Len(subtitles) |->
                  [ start |-> [millisToTimeSrt(subtitles[k].startMillis)
                                 EXCEPT !.separator = "."],
                    end   |-> [millisToTimeSrt(subtitles[k].endMillis)
                                 EXCEPT !.separator = "."],
                    lines |-> breakLines(subtitles[k].text, DEFAULT_MAX_CHARS) ]] ]

formatVtt(header, subtitles) ==
  [ format |-> "vtt",
    header |-> IF trim(header) # EMPTY
                 THEN header ELSE <<"W", "E", "B", "V", "T", "T">>,
    blocks |-> [k \in 1..Len(subtitles) |->
                  [ start |-> millisToTimeVtt(subtitles[k].startMillis),
                    end   |-> millisToTimeVtt(subtitles[k].endMillis),
                    lines |-> breakLines(subtitles[k].text, DEFAULT_MAX_CHARS) ]] ]

\* the switch on originalSubtitleFormat in displayResult
formatWith(format, header, subtitles) ==
  IF format = FORMAT_SBV THEN formatSbv(header, subtitles)
  ELSE IF format = FORMAT_VTT THEN formatVtt(header, subtitles)
  ELSE formatSrt(header, subtitles)

\* ------------------------------------------------------------------------
\* displayResult
\* ------------------------------------------------------------------------
\* the cues written out: the parsed cues with the revised text injected
revisedSubtitlesOf(parsedSubs, segments) ==
  [k \in 1..Len(parsedSubs) |->
     [parsedSubs[k] EXCEPT !.text = IF k <= Len(segments) THEN segments[k] ELSE EMPTY]]

\* what displayResult leaves behind: the cues written out, the formatted
\* file and the parsed cues it was given; header and format are the globals
\* originalSubtitleHeader and originalSubtitleFormat at the time of the call
displayResultRenumbered(parsedSubs, segments, header, format) ==
  [ revisedSubtitles      |->
      [k \in 1..Len(parsedSubs) |->
         [revisedSubtitlesOf(parsedSubs, segments)[k] EXCEPT !.index = k]],
    revisedSubtitleResult |->
      formatWith(format, header, revisedSubtitlesOf(parsedSubs, segments)),
    parsedSubsOriginal    |-> parsedSubs ]

displayResult(parsedSubs, segments, header, format) ==
  [ revisedSubtitles      |-> revisedSubtitlesOf(parsedSubs, segments),
    revisedSubtitleResult |->
      formatWith(format, header, revisedSubtitlesOf(parsedSubs, segments)),
    parsedSubsOriginal    |-> parsedSubs ]

\* ------------------------------------------------------------------------
\* File names
\* ------------------------------------------------------------------------
\* name.split(".").pop().toLowerCase()
extensionOf(name) ==
  LET dots == {q \in 1..Len(name) : name[q] = "."}
      last == IF dots = {} THEN 0 ELSE CHOOSE q \in dots : \A h \in dots : h <= q
      tail == SubSeq(name, last + 1, Len(name))
  IN  [k \in 1..Len(tail) |-> toLowerCase(tail[k])]

isSupportedExtension(extension) == extension \in {FORMAT_SRT, FORMAT_SBV, FORMAT_VTT}

\* ------------------------------------------------------------------------
\* Inputs of the alignment run
\* ------------------------------------------------------------------------
MaxOrigWords == 2
MaxRevisedWords == 3
MaxCues == 2

wa == <<"a">>
wb == <<"b">>
wd == <<"d">>
we == <<"e">>
wAdot == <<"A", ".">>
wHyphen == <<HYPHEN>>
wThe == <<"t", "h", "e">>
wQuick == <<"q", "u", "i", "c", "k">>
wFast == <<"f", "a", "s", "t">>
wBrown == <<"b", "r", "o", "w", "n">>
wFox == <<"f", "o", "x">>
wHello == <<"h", "e", "l", "l", "o">>

\* two words that differ, and one without any letter
OrigVocab == {wa, wb, wHyphen}
RevisedVocab == {wa, wb, wHyphen}

SeqsUpTo(S, n) == UNION {[1..k -> S] : k \in 1..n}

\* a parsed cue: cue k of a file shows its text from second k-1 to second k
cueOf(k, words) ==
  [ index |-> k, startMillis |-> (k - 1) * 1000, endMillis |-> k * 1000,
    text |-> joinSpace(words) ]

\* the cue list whose k-th cue holds the k-th word list
subsOf(wordLists) == [k \in 1..Len(wordLists) |-> cueOf(k, wordLists[k])]

\* the ways to cut a word sequence into c consecutive (possibly empty) cues
CutsOf(n, c) ==
  {p \in [1..(c - 1) -> 0..n] : \A k \in 1..(c - 2) : p[k] <= p[k + 1]}

cutAt(words, p) ==
  LET c == Len(p) + 1
      from(k) == IF k = 1 THEN 0 ELSE p[k - 1]
      to(k)   == IF k = c THEN Len(words) ELSE p[k]
  IN  [k \in 1..c |-> SubSeq(words, from(k) + 1, to(k))]

\* the cue lists of 2..maxCues cues over the word sequences of 1..n words
SubsUpTo(S, n, maxCues) ==
  UNION { {subsOf(cutAt(words, p)) :
             p \in UNION {CutsOf(Len(words), c) : c \in 2..maxCues}} :
          words \in SeqsUpTo(S, n) }

DefaultScoring ==
  [ matchScore |-> MATCH_SCORE, mismatchPenalty |-> MISMATCH_PENALTY,
    gapPenalty |-> GAP_PENALTY ]

ScoringChoices ==
  { DefaultScoring,
    [matchScore |-> 1, mismatchPenalty |-> 0, gapPenalty |-> 0],
    [matchScore |-> -1, mismatchPenalty |-> 1, gapPenalty |-> 1] }

\* runs of the program's own scoring on longer texts
ScenarioInputs ==
  { [ subs |-> subsOf(<< <<wThe, wQuick>>, <<wBrown, wFox>> >>),
      revisedText |-> joinSpace(<<wThe, wFast, wBrown, wFox>>),
      scoring |-> DefaultScoring ],
    [ subs |-> subsOf(<< <<wThe, wQuick>>, <<wBrown, wFox>> >>),
      revisedText |-> joinSpace(<<wHello, wThe, wQuick, wBrown, wFox>>),
      scoring |-> DefaultScoring ],
    [ subs |-> subsOf(<< <<wa, wb>>, <<wd, we>> >>),
      revisedText |-> joinSpace(<<wa, wb, wHyphen, wHyphen, wd, we>>),
      scoring |-> DefaultScoring ],
    [ subs |-> subsOf(<< <<wa, wb>> >>),
      revisedText |-> joinSpace(<<wHello, wAdot, wb>>),
      scoring |-> DefaultScoring ],
    [ subs |-> subsOf(<< <<wa, wb>> >>),
      revisedText |-> joinSpace(<<wb, wHyphen, wa, wb>>),
      scoring |-> DefaultScoring ] }

\* every short original in one cue against every short revised text, under
\* every scoring
SingleCueInputs ==
  { [subs |-> subsOf(<<words>>), revisedText |-> joinSpace(tokens), scoring |-> sc] :
      words \in SeqsUpTo(OrigVocab, MaxOrigWords),
      tokens \in SeqsUpTo(RevisedVocab, MaxRevisedWords),
      sc \in ScoringChoices }

\* every short original cut into several cues, under the program's scoring
MultiCueInputs ==
  { [subs |-> subs, revisedText |-> joinSpace(tokens), scoring |-> DefaultScoring] :
      subs \in SubsUpTo(OrigVocab, MaxOrigWords, MaxCues),
      tokens \in SeqsUpTo(RevisedVocab, MaxRevisedWords - 1) }

AlignInputs == ScenarioInputs \cup SingleCueInputs \cup MultiCueInputs

\* ------------------------------------------------------------------------
\* The alignment run, cell by cell and call by call
\* ------------------------------------------------------------------------
VARIABLES
  pc,                  \* the call the run is in
  parsedSubsOriginal,  \* the parsed cues of the run
  seq1Global,          \* the original words
  seq2Global,          \* the revised words
  scoring,             \* matchScore, mismatchPenalty, gapPenalty
  sw,                  \* smithWaterman's matrices, maxScore and maxPos
  cellsDone,           \* iterations of smithWaterman's inner loop so far
  alignment,           \* traceback's result
  mappedSegments,      \* mapAlignmentToSegments' result
  revisedSegments      \* the segments after the missing-prefix recovery

VARIABLES
  originalSubtitleContent,   \* state variable: content of the loaded file
  originalSubtitleFileName,  \* state variable
  originalSubtitleFormat,    \* state variable: "srt", "sbv" or "vtt"
  originalSubtitleHeader,    \* state variable
  revisedSubtitleResult,     \* state variable: the formatted output
  revisedTextValue,          \* revisedTextInput.value
  statusMessage,             \* statusMessage.textContent
  outputDisplay,             \* outputSection.style.display
  progressBar,               \* progressBarContainer.style.display, progressBar.value
  readers,                   \* FileReader loads in flight
  timers,                    \* setTimeout callbacks in flight, oldest first
  revisedSubtitles,          \* the cue list written by the last displayResult
  events,                    \* user events so far
  syncClicks,                \* clicks on the Sync button so far
  runsCompleted              \* deferred callbacks that ran to their end

VARIABLES
  breakText,                 \* breakLines' argument text
  breakMaxChars,             \* breakLines' argument maxChars
  breakResult                \* the lines breakLines returned, << >> before the call

alignVars ==
  << pc, parsedSubsOriginal, seq1Global, seq2Global, scoring, sw, cellsDone,
     alignment, mappedSegments, revisedSegments >>

uiVars ==
  << originalSubtitleContent, originalSubtitleFileName, originalSubtitleFormat,
     originalSubtitleHeader, revisedSubtitleResult, revisedTextValue,
     statusMessage, outputDisplay, progressBar, readers, timers,
     revisedSubtitles, events, syncClicks, runsCompleted >>

breakVars == << breakText, breakMaxChars, breakResult >>

vars == << alignVars, uiVars, breakVars >>

\* no call of breakLines under observation
BreakIdle ==
  /\ breakText = EMPTY
  /\ breakMaxChars = DEFAULT_MAX_CHARS
  /\ breakResult = << >>

status(text, arg) == [text |-> text, arg |-> arg]

\* the page as loaded: no file, no text, nothing in flight
UiStart ==
  /\ originalSubtitleContent = NoContent
  /\ originalSubtitleFileName =
       <<"o", "r", "i", "g", "i", "n", "a", "l", ".", "s", "r", "t">>
  /\ originalSubtitleFormat = FORMAT_SRT
  /\ originalSubtitleHeader = EMPTY
  /\ revisedSubtitleResult = NoResult
  /\ revisedTextValue = EMPTY
  /\ statusMessage = status("", EMPTY)
  /\ outputDisplay = "initial"
  /\ progressBar = [display |-> "initial", value |-> 0]
  /\ readers = << >>
  /\ timers = << >>
  /\ revisedSubtitles = << >>
  /\ events = 0
  /\ syncClicks = 0
  /\ runsCompleted = 0

AlignInit ==
  \E inp \in AlignInputs :
    /\ parsedSubsOriginal = inp.subs
    /\ seq1Global = seq1GlobalOf(inp.subs)
    /\ seq2Global = revisedWordsOf(inp.revisedText)
    /\ scoring = inp.scoring
    /\ Len(seq1GlobalOf(inp.subs)) > 0
    /\ Len(revisedWordsOf(inp.revisedText)) > 0
    /\ sw = swStart(Len(seq1GlobalOf(inp.subs)), Len(revisedWordsOf(inp.revisedText)))
    /\ cellsDone = 0
    /\ pc = "smithWaterman"
    /\ alignment = << >>
    /\ mappedSegments = << >>
    /\ revisedSegments = << >>
    /\ UiStart
    /\ BreakIdle

SwFillCell ==
  /\ pc = "smithWaterman"
  /\ cellsDone < Len(seq1Global) * Len(seq2Global)
  /\ sw' = swCell(sw, seq1Global, seq2Global, scoring.matchScore,
                  scoring.mismatchPenalty, scoring.gapPenalty,
                  cellRow(cellsDone + 1, Len(seq2Global)),
                  cellCol(cellsDone + 1, Len(seq2Global)))
  /\ cellsDone' = cellsDone + 1
  /\ UNCHANGED << pc, parsedSubsOriginal, seq1Global, seq2Global, scoring,
                  alignment, mappedSegments, revisedSegments ,
                  uiVars >>
  /\ UNCHANGED breakVars

Traceback ==
  /\ pc = "smithWaterman"
  /\ cellsDone = Len(seq1Global) * Len(seq2Global)
  /\ alignment' = traceback(seq1Global, seq2Global, sw.scoreMatrix,
                            sw.tracebackMatrix, sw.maxPos)
  /\ pc' = "mapAlignmentToSegments"
  /\ UNCHANGED << parsedSubsOriginal, seq1Global, seq2Global, scoring, sw,
                  cellsDone, mappedSegments, revisedSegments ,
                  uiVars >>
  /\ UNCHANGED breakVars

MapAlignment ==
  /\ pc = "mapAlignmentToSegments"
  /\ mappedSegments' = mapAlignmentToSegments(alignment, parsedSubsOriginal, seq1Global)
  /\ pc' = "prefixRecovery"
  /\ UNCHANGED << parsedSubsOriginal, seq1Global, seq2Global, scoring, sw,
                  cellsDone, alignment, revisedSegments ,
                  uiVars >>
  /\ UNCHANGED breakVars

PrefixRecovery ==
  /\ pc = "prefixRecovery"
  /\ revisedSegments' = prefixRecovery(seq2Global, mappedSegments)
  /\ pc' = "done"
  /\ UNCHANGED << parsedSubsOriginal, seq1Global, seq2Global, scoring, sw,
                  cellsDone, alignment, mappedSegments ,
                  uiVars >>
  /\ UNCHANGED breakVars

AlignNext == SwFillCell \/ Traceback \/ MapAlignment \/ PrefixRecovery

SpecAlign == AlignInit /\ [][AlignNext]_vars

\* ------------------------------------------------------------------------
\* The page: file selection, FileReader loads, the Sync button, the timer
\* ------------------------------------------------------------------------
MaxEvents == 4

time(h, m, sec, ms) == [hours |-> h, minutes |-> m, seconds |-> sec, ms |-> ms]

\* the files the user picks from
SrtFile ==
  [ name |-> <<"a", ".", "s", "r", "t">>,
    content |->
      [ syntax |-> "srt", header |-> EMPTY,
        cues |-> << [ index |-> 1, start |-> time(0, 0, 0, 0),
                      end |-> time(0, 0, 1, 500), lines |-> <<joinSpace(<<wa, wb>>)>> ],
                    [ index |-> 3, start |-> time(0, 0, 2, 0),
                      end |-> time(1, 1, 3, 250), lines |-> <<wd, we>> ] >> ] ]

VttFile ==
  [ name |-> <<"B", ".", "V", "T", "T">>,
    content |->
      [ syntax |-> "vtt", header |-> <<"W", "E", "B", "V", "T", "T">>,
        cues |-> << [ index |-> 0, start |-> time(0, 0, 0, 0),
                      end |-> time(0, 0, 1, 0), lines |-> << >> ],
                    [ index |-> 0, start |-> time(0, 0, 1, 0),
                      end |-> time(0, 0, 2, 0), lines |-> <<joinSpace(<<wb, wa>>)>> ] >> ] ]

SbvFile ==
  [ name |-> <<"c", ".", "s", "b", "v">>,
    content |->
      [ syntax |-> "sbv", header |-> EMPTY,
        cues |-> << [ index |-> 0, start |-> time(0, 0, 0, 0),
                      end |-> time(0, 0, 1, 0), lines |-> <<wa>> ] >> ] ]

\* an SRT file whose only cue has no text
BlankSrtFile ==
  [ name |-> <<"d", ".", "s", "r", "t">>,
    content |->
      [ syntax |-> "srt", header |-> EMPTY,
        cues |-> << [ index |-> 1, start |-> time(0, 0, 0, 0),
                      end |-> time(0, 0, 1, 0), lines |-> << >> ] >> ] ]

TxtFile ==
  [ name |-> <<"n", ".", "t", "x", "t">>,
    content |-> [syntax |-> "txt", header |-> EMPTY, cues |-> << >>] ]

Files == {SrtFile, VttFile, SbvFile, BlankSrtFile, TxtFile}

\* the texts the user pastes
RevisedTexts ==
  { EMPTY, <<SPACE>>, joinSpace(<<wa, wb>>),
    joinSpace(<<wHello, wa, wb>>) \o <<LF>> \o joinSpace(<<wd, we>>) }

removeAt(q, i) == SubSeq(q, 1, i - 1) \o SubSeq(q, i + 1, Len(q))

\* the change handler of the file input, a file chosen
SelectFile(file) ==
  /\ events < MaxEvents
  /\ events' = events + 1
  /\ originalSubtitleFileName' = file.name
  /\ IF isSupportedExtension(extensionOf(file.name))
       THEN /\ originalSubtitleFormat' = extensionOf(file.name)
            /\ readers' = Append(readers, [content |-> file.content])
            /\ UNCHANGED << originalSubtitleContent, statusMessage >>
       ELSE /\ statusMessage' =
                 status("Error: Unsupported file format. Please use SRT, SBV, or VTT.", EMPTY)
            /\ originalSubtitleContent' = NoContent
            /\ UNCHANGED << originalSubtitleFormat, readers >>
  /\ UNCHANGED << originalSubtitleHeader, revisedSubtitleResult, revisedTextValue,
                  outputDisplay, progressBar, timers, revisedSubtitles,
                  syncClicks, runsCompleted, alignVars >>
  /\ UNCHANGED breakVars

\* the change handler of the file input, the dialog cancelled
SelectNoFile ==
  /\ events < MaxEvents
  /\ events' = events + 1
  /\ originalSubtitleContent' = NoContent
  /\ statusMessage' = status("No subtitle file selected.", EMPTY)
  /\ UNCHANGED << originalSubtitleFileName, originalSubtitleFormat,
                  originalSubtitleHeader, revisedSubtitleResult, revisedTextValue,
                  outputDisplay, progressBar, readers, timers, revisedSubtitles,
                  syncClicks, runsCompleted, alignVars >>
  /\ UNCHANGED breakVars

\* reader.onload of the i-th load in flight
ReaderLoad(i) ==
  /\ i \in 1..Len(readers)
  /\ originalSubtitleContent' = readers[i].content
  /\ statusMessage' =
       status("File loaded. Paste the revised text and click 'Sync'.",
              originalSubtitleFormat)
  /\ outputDisplay' = "none"
  /\ readers' = removeAt(readers, i)
  /\ UNCHANGED << originalSubtitleFileName, originalSubtitleFormat,
                  originalSubtitleHeader, revisedSubtitleResult, revisedTextValue,
                  progressBar, timers, revisedSubtitles, events, syncClicks,
                  runsCompleted, alignVars >>
  /\ UNCHANGED breakVars

\* reader.onerror of the i-th load in flight
ReaderError(i) ==
  /\ i \in 1..Len(readers)
  /\ statusMessage' = status("Error reading file.", originalSubtitleFormat)
  /\ originalSubtitleContent' = NoContent
  /\ readers' = removeAt(readers, i)
  /\ UNCHANGED << originalSubtitleFileName, originalSubtitleFormat,
                  originalSubtitleHeader, revisedSubtitleResult, revisedTextValue,
                  outputDisplay, progressBar, timers, revisedSubtitles, events,
                  syncClicks, runsCompleted, alignVars >>
  /\ UNCHANGED breakVars

\* the user replaces the text of the revised-text box
EditRevisedText(text) ==
  /\ events < MaxEvents
  /\ events' = events + 1
  /\ text # revisedTextValue
  /\ revisedTextValue' = text
  /\ UNCHANGED << originalSubtitleContent, originalSubtitleFileName,
                  originalSubtitleFormat, originalSubtitleHeader,
                  revisedSubtitleResult, statusMessage, outputDisplay,
                  progressBar, readers, timers, revisedSubtitles, syncClicks,
                  runsCompleted, alignVars >>
  /\ UNCHANGED breakVars

\* the test that ends the preparation phase of handleSync
eitherSequenceEmptyBothRequired(seq1, seq2) == Len(seq1) = 0 /\ Len(seq2) = 0

eitherSequenceEmpty(seq1, seq2) == Len(seq1) = 0 \/ Len(seq2) = 0

\* handleSync up to the setTimeout call
HandleSync ==
  /\ events < MaxEvents
  /\ events' = events + 1
  /\ syncClicks' = syncClicks + 1
  /\ LET revisedText == revisedTextValue
         parsedResult == parseWith(originalSubtitleFormat, originalSubtitleContent)
         parsedSubs == parsedResult.subtitles
         seq1 == seq1GlobalOf(parsedSubs)
         seq2 == revisedWordsOf(revisedText)
     IN  IF originalSubtitleContent = NoContent \/ revisedText = EMPTY
           THEN /\ statusMessage' =
                     status("Error: Please upload a subtitle file and paste the revised text.", EMPTY)
                /\ UNCHANGED << originalSubtitleHeader, outputDisplay,
                                progressBar, timers >>
         ELSE IF Len(parsedSubs) = 0
           THEN /\ originalSubtitleHeader' = parsedResult.header
                /\ statusMessage' =
                     status("Preparation Error: Invalid or empty file.",
                            originalSubtitleFormat)
                /\ outputDisplay' = "none"
                /\ progressBar' = [display |-> "none", value |-> 0]
                /\ UNCHANGED timers
         ELSE IF eitherSequenceEmpty(seq1, seq2)
           THEN /\ originalSubtitleHeader' = parsedResult.header
                /\ statusMessage' =
                     status("Preparation Error: One of the word sequences (original or revised) is empty.", EMPTY)
                /\ outputDisplay' = "none"
                /\ progressBar' = [display |-> "none", value |-> 0]
                /\ UNCHANGED timers
         ELSE /\ originalSubtitleHeader' = parsedResult.header
              /\ statusMessage' =
                   status("Finding the best way to match your words...", EMPTY)
              /\ outputDisplay' = "none"
              /\ progressBar' = [display |-> "block", value |-> 10]
              /\ timers' = Append(timers,
                             [ parsedSubsOriginal |-> parsedSubs,
                               seq1Global |-> seq1, seq2Global |-> seq2,
                               revisedText |-> revisedText,
                               \* not captured by the callback: the format
                               \* and header this click parsed the file with
                               formatAtClick |-> originalSubtitleFormat,
                               headerAtClick |-> parsedResult.header ])
  /\ UNCHANGED << originalSubtitleContent, originalSubtitleFileName,
                  originalSubtitleFormat, revisedSubtitleResult, revisedTextValue,
                  readers, revisedSubtitles, runsCompleted, alignVars >>
  /\ UNCHANGED breakVars

\* the callback handleSync passed to setTimeout, oldest timer first
TimerFire ==
  /\ Len(timers) > 0
  /\ LET run == Head(timers)
         result == smithWaterman(run.seq1Global, run.seq2Global, MATCH_SCORE,
                                 MISMATCH_PENALTY, GAP_PENALTY)
         steps == traceback(run.seq1Global, run.seq2Global, result.scoreMatrix,
                            result.tracebackMatrix, result.maxPos)
         mapped == mapAlignmentToSegments(steps, run.parsedSubsOriginal,
                                          run.seq1Global)
         recovered == prefixRecovery(revisedWordsOf(run.revisedText), mapped)
         shown == displayResult(run.parsedSubsOriginal, recovered,
                                originalSubtitleHeader, originalSubtitleFormat)
     IN  /\ pc' = "done"
         /\ parsedSubsOriginal' = shown.parsedSubsOriginal
         /\ seq1Global' = run.seq1Global
         /\ seq2Global' = run.seq2Global
         /\ scoring' = DefaultScoring
         /\ sw' = result
         /\ cellsDone' = Len(run.seq1Global) * Len(run.seq2Global)
         /\ alignment' = steps
         /\ mappedSegments' = mapped
         /\ revisedSegments' = recovered
         /\ revisedSubtitles' = shown.revisedSubtitles
         /\ revisedSubtitleResult' = shown.revisedSubtitleResult
  /\ timers' = Tail(timers)
  /\ statusMessage' = status("Sync complete! Take a look", EMPTY)
  /\ outputDisplay' = "block"
  /\ progressBar' = [display |-> "block", value |-> 100]
  /\ runsCompleted' = runsCompleted + 1
  /\ UNCHANGED << originalSubtitleContent, originalSubtitleFileName,
                  originalSubtitleFormat, originalSubtitleHeader,
                  revisedTextValue, readers, events, syncClicks >>
  /\ UNCHANGED breakVars

Init ==
  /\ UiStart
  /\ BreakIdle
  /\ pc = "idle"
  /\ parsedSubsOriginal = << >>
  /\ seq1Global = << >>
  /\ seq2Global = << >>
  /\ scoring = DefaultScoring
  /\ sw = swStart(0, 0)
  /\ cellsDone = 0
  /\ alignment = << >>
  /\ mappedSegments = << >>
  /\ revisedSegments = << >>

Next ==
  \/ \E file \in Files : SelectFile(file)
  \/ SelectNoFile
  \/ \E i \in 1..Len(readers) : ReaderLoad(i)
  \/ \E i \in 1..Len(readers) : ReaderError(i)
  \/ \E text \in RevisedTexts : EditRevisedText(text)
  \/ HandleSync
  \/ TimerFire

Spec == Init /\ [][Next]_vars

\* ========================================================================
\* Properties of the alignment run (SpecAlign)
\* ========================================================================
TracebackDone == pc \in {"mapAlignmentToSegments", "prefixRecovery", "done"}
MapDone == pc \in {"prefixRecovery", "done"}
RunDone == pc = "done"

\* how often each element occurs in a sequence
BagOfSeq(q) == [w \in Range(q) |-> Cardinality({k \in 1..Len(q) : q[k] = w})]

\* the words found in the remapped segments
PlacedWords ==
  Concat([k \in 1..Len(mappedSegments) |-> splitWords(mappedSegments[k])])

\* the steps of the alignment that carry a revised word
CarryingSteps == SelectSeq(alignment, LAMBDA st : st.type # "gap2")

CarriedWords == [k \in 1..Len(CarryingSteps) |-> CarryingSteps[k].word2]

\* the segment boundaries add up to the original length
BoundariesPartition ==
  LET b == segmentBoundariesOf(parsedSubsOriginal)
  IN  /\ b[1].start = 0
      /\ b[Len(b)].end = Len(seq1Global)
      /\ \A k \in 1..(Len(b) - 1) : b[k].end = b[k + 1].start

\* C1: with the program's scoring constants and segments whose word counts
\* sum to the original length, the words placed into the remapped segments
\* are, as a multiset, exactly the revised words carried by the alignment
\* steps other than gap-in-revised: none dropped, none placed twice.
C1_PlacedEqualsCarried ==
  (MapDone /\ scoring = DefaultScoring /\ BoundariesPartition)
     => BagOfSeq(PlacedWords) = BagOfSeq(CarriedWords)

PositiveMatchNonpositivePenalties ==
  /\ scoring.matchScore > 0
  /\ scoring.mismatchPenalty <= 0
  /\ scoring.gapPenalty <= 0

\* every step is a match and step k pairs index k-1 with index k-1
AllMatchCoveringAll ==
  /\ Len(alignment) = Len(seq1Global)
  /\ \A k \in 1..Len(alignment) :
       /\ alignment[k].type = "match"
       /\ alignment[k].index1 = k - 1
       /\ alignment[k].index2 = k - 1

EveryWordHasLetters(q) == \A k \in 1..Len(q) : cleanForComparison(q[k]) # EMPTY

\* C2 as stated: aligning any word sequence with itself, under a positive
\* match score and nonpositive penalties, gives only match steps that cover
\* every index of the sequence exactly once.
C2_SelfAlignmentAnySequence ==
  (TracebackDone /\ seq1Global = seq2Global /\ PositiveMatchNonpositivePenalties)
     => AllMatchCoveringAll

\* C2 amended: aligning with itself a word sequence in which every word keeps
\* at least one letter after normalisation, under a positive match score and
\* nonpositive penalties, gives only match steps that cover every index of the
\* sequence exactly once.
C2_SelfAlignmentOfLetteredWords ==
  (/\ TracebackDone
   /\ seq1Global = seq2Global
   /\ PositiveMatchNonpositivePenalties
   /\ EveryWordHasLetters(seq1Global))
     => AllMatchCoveringAll

C2_Witness ==
  /\ TracebackDone
  /\ seq1Global = seq2Global
  /\ Len(seq1Global) >= 2
  /\ seq1Global[1] # seq1Global[2]
  /\ scoring.gapPenalty = 0
  /\ PositiveMatchNonpositivePenalties
  /\ EveryWordHasLetters(seq1Global)
  /\ AllMatchCoveringAll

QuickBrownFoxSubs == subsOf(<< <<wThe, wQuick>>, <<wBrown, wFox>> >>)

\* C4: with the default constants, [the quick | brown fox] against
\* [the fast brown fox] aligns in four diagonal steps (match, mismatch
\* quick/fast, match, match) and remaps to "the fast" and "brown fox".
C4_QuickFastScenario ==
  (/\ parsedSubsOriginal = QuickBrownFoxSubs
   /\ seq2Global = <<wThe, wFast, wBrown, wFox>>
   /\ scoring = DefaultScoring)
     => /\ TracebackDone =>
             /\ [k \in 1..Len(alignment) |-> alignment[k].type]
                  = <<"match", "mismatch", "match", "match">>
             /\ \A k \in 1..Len(alignment) :
                  alignment[k].index1 = k - 1 /\ alignment[k].index2 = k - 1
             /\ alignment[2].word1 = wQuick /\ alignment[2].word2 = wFast
        /\ MapDone =>
             mappedSegments = << joinSpace(<<wThe, wFast>>),
                                 joinSpace(<<wBrown, wFox>>) >>

C4_Witness ==
  /\ parsedSubsOriginal = QuickBrownFoxSubs
  /\ seq2Global = <<wThe, wFast, wBrown, wFox>>
  /\ scoring = DefaultScoring
  /\ MapDone
  /\ Len(alignment) = 4

\* the normalised words of the first remapped segment
RemappedFirstForms ==
  {cleanForComparison(w) : w \in Range(splitWords(mappedSegments[1]))}

\* position (from 1) of the first revised word whose normalised form is in
\* the first remapped segment; one past the end when there is none
StopPoint ==
  LET hits == {i \in 1..Len(seq2Global) :
                 cleanForComparison(seq2Global[i]) \in RemappedFirstForms}
  IN  IF hits = {} THEN Len(seq2Global) + 1
      ELSE CHOOSE i \in hits : \A h \in hits : i <= h

\* C5: the recovery pass prepends to the first segment exactly the revised
\* words before the first one whose normalised form is already in the first
\* remapped segment, joined by single spaces and followed by one space; with
\* no such word the first segment is unchanged; [hello the quick brown fox]
\* against [the quick brown fox] gets "hello " prepended.
C5_PrefixRecovery ==
  RunDone =>
    /\ revisedSegments[1] =
         IF StopPoint > 1
           THEN joinSpace(SubSeq(seq2Global, 1, StopPoint - 1))
                  \o <<SPACE>> \o mappedSegments[1]
           ELSE mappedSegments[1]
    /\ (/\ seq1Global = <<wThe, wQuick, wBrown, wFox>>
        /\ seq2Global = <<wHello, wThe, wQuick, wBrown, wFox>>
        /\ scoring = DefaultScoring)
          => revisedSegments[1] = wHello \o <<SPACE>> \o mappedSegments[1]

C5_Witness ==
  /\ RunDone
  /\ seq1Global = <<wThe, wQuick, wBrown, wFox>>
  /\ seq2Global = <<wHello, wThe, wQuick, wBrown, wFox>>
  /\ scoring = DefaultScoring
  /\ mappedSegments[1] = joinSpace(<<wThe, wQuick>>)
  /\ revisedSegments[1] = joinSpace(<<wHello, wThe, wQuick>>)

HasConsumed == Len(CarryingSteps) > 0

\* first revised index (from 0) consumed by the alignment
FirstConsumed == CarryingSteps[1].index2

\* the revised words before the first consumed one
LeadingWords == SubSeq(seq2Global, 1, FirstConsumed)

FirstSegmentOutputWords == Range(splitWords(revisedSegments[1]))

\* C6 as stated: after a complete run with the program's scoring constants
\* every revised word before the first revised index consumed by the
\* alignment is in the first segment's output.
C6_LeadingWordsKept ==
  (RunDone /\ HasConsumed /\ scoring = DefaultScoring)
     => \A k \in 1..Len(LeadingWords) : LeadingWords[k] \in FirstSegmentOutputWords

\* C6 amended: after a complete run every revised word before the first
\* revised index consumed by the alignment is in the first segment's output,
\* provided none of those leading words has the normalised form of a word of
\* the first remapped segment.
C6_LeadingWordsKeptUnlessRecurring ==
  (/\ RunDone
   /\ HasConsumed
   /\ \A k \in 1..Len(LeadingWords) :
        cleanForComparison(LeadingWords[k]) \notin RemappedFirstForms)
     => \A k \in 1..Len(LeadingWords) : LeadingWords[k] \in FirstSegmentOutputWords

C6_Witness ==
  /\ RunDone
  /\ HasConsumed
  /\ scoring = DefaultScoring
  /\ Len(LeadingWords) >= 2
  /\ mappedSegments[1] # EMPTY
  /\ \A k \in 1..Len(LeadingWords) :
       /\ cleanForComparison(LeadingWords[k]) \notin RemappedFirstForms
       /\ LeadingWords[k] \in FirstSegmentOutputWords

\* C7: at every point during and after smithWaterman every score is >= 0 and
\* row 0 and column 0 hold only 0, whatever the scoring parameters.
C7_ScoresNonNegative ==
  /\ \A i \in DOMAIN sw.scoreMatrix : \A j \in DOMAIN sw.scoreMatrix[i] :
       sw.scoreMatrix[i][j] >= 0
  /\ \A j \in DOMAIN sw.scoreMatrix[0] : sw.scoreMatrix[0][j] = 0
  /\ \A i \in DOMAIN sw.scoreMatrix : sw.scoreMatrix[i][0] = 0

C7_Witness ==
  /\ pc = "smithWaterman"
  /\ cellsDone > 1
  /\ cellsDone < Len(seq1Global) * Len(seq2Global)
  /\ scoring.matchScore < 0
  /\ \E i \in 1..Len(seq1Global) : \E j \in 1..Len(seq2Global) :
       sw.scoreMatrix[i][j] > 0

\* C8: between consecutive steps of the alignment neither index decreases
\* and at least one of them increases.
C8_AlignmentMonotonic ==
  TracebackDone =>
    \A k \in 1..(Len(alignment) - 1) :
      /\ alignment[k].index1 <= alignment[k + 1].index1
      /\ alignment[k].index2 <= alignment[k + 1].index2
      /\ \/ alignment[k].index1 < alignment[k + 1].index1
         \/ alignment[k].index2 < alignment[k + 1].index2

C8_Witness ==
  /\ TracebackDone
  /\ Len(alignment) >= 3
  /\ \E k \in 1..Len(alignment) : alignment[k].type = "gap1"
  /\ \E k \in 1..Len(alignment) : alignment[k].type = "gap2"

\* the revised words of the steps whose original index is in [start, end)
WalkedWords(boundary) ==
  LET inside == SelectSeq(CarryingSteps,
                  LAMBDA st : st.index1 >= boundary.start /\ st.index1 < boundary.end)
  IN  [k \in 1..Len(inside) |-> inside[k].word2]

SegmentOutsideAligned(boundary) ==
  \/ alignment = << >>
  \/ boundary.end <= alignment[1].index1
  \/ boundary.start > alignment[Len(alignment)].index1

SegmentInsideAligned(boundary) ==
  /\ alignment # << >>
  /\ boundary.start < boundary.end
  /\ boundary.start >= alignment[1].index1
  /\ boundary.end - 1 <= alignment[Len(alignment)].index1

\* C9: with the program's scoring constants, a segment outside the aligned
\* range of original indices gets the empty string, and a segment fully
\* inside it gets exactly the revised words of the steps whose original index
\* falls in it, in alignment order, joined by single spaces.
C9_SegmentsOutsideAndInside ==
  (MapDone /\ scoring = DefaultScoring) =>
    \A k \in 1..Len(mappedSegments) :
      LET boundary == segmentBoundariesOf(parsedSubsOriginal)[k]
      IN  /\ SegmentOutsideAligned(boundary) => mappedSegments[k] = EMPTY
          /\ SegmentInsideAligned(boundary) =>
               mappedSegments[k] = joinSpace(WalkedWords(boundary))



\* ========================================================================
\* Properties of the page (Spec)
\* ========================================================================
\* C3: a sync run that completes writes as many cues as were parsed, in the
\* same order, each with the index, start and end (in milliseconds) of the
\* parsed cue at its position and the revised segment as its text, and it
\* leaves the parsed cues as they were.
C3_OutputKeepsCueTiming ==
  [][ runsCompleted' = runsCompleted + 1 =>
        LET original == Head(timers).parsedSubsOriginal
        IN  /\ Len(revisedSubtitles') = Len(original)
            /\ \A k \in 1..Len(original) :
                 /\ revisedSubtitles'[k].index = original[k].index
                 /\ revisedSubtitles'[k].startMillis = original[k].startMillis
                 /\ revisedSubtitles'[k].endMillis = original[k].endMillis
                 /\ revisedSubtitles'[k].text = revisedSegments'[k]
            /\ parsedSubsOriginal' = original ]_vars

C3_Witness ==
  /\ runsCompleted > 0
  /\ Len(revisedSubtitles) = 2
  /\ revisedSubtitles[2].index = 3
  /\ revisedSubtitles[2].startMillis = 2000
  /\ revisedSubtitles[2].endMillis = 3663250
  /\ revisedSubtitles[1].text # parsedSubsOriginal[1].text
  /\ parsedSubsOriginal[1].text = joinSpace(<<wa, wb>>)

\* the word sequences handleSync would build from the page as it is
OriginalWordsNow ==
  seq1GlobalOf(parseWith(originalSubtitleFormat, originalSubtitleContent).subtitles)

RevisedWordsNow == revisedWordsOf(revisedTextValue)

ErrorTexts ==
  { "Error: Please upload a subtitle file and paste the revised text.",
    "Preparation Error: Invalid or empty file.",
    "Preparation Error: One of the word sequences (original or revised) is empty." }

\* C10: a click on Sync while the original or the revised word sequence is
\* empty reports an error in the status message, schedules no callback, runs
\* no alignment and produces or shows no output.
C10_EmptySequenceStopsSync ==
  [][ (/\ syncClicks' = syncClicks + 1
       /\ (Len(OriginalWordsNow) = 0 \/ Len(RevisedWordsNow) = 0))
        => /\ statusMessage'.text \in ErrorTexts
           /\ timers' = timers
           /\ UNCHANGED alignVars
           /\ revisedSubtitleResult' = revisedSubtitleResult
           /\ revisedSubtitles' = revisedSubtitles
           /\ outputDisplay' \in {outputDisplay, "none"} ]_vars

C10_Witness ==
  /\ syncClicks > 0
  /\ statusMessage.text =
       "Preparation Error: One of the word sequences (original or revised) is empty."
  /\ Len(OriginalWordsNow) > 0
  /\ Len(RevisedWordsNow) = 0
  /\ timers = << >>
  /\ runsCompleted = 0

\* ------------------------------------------------------------------------
\* smithWaterman's traceback entries and best position
\* ------------------------------------------------------------------------
\* the cells the two loops have filled so far
FilledCells ==
  { [i |-> cellRow(k, Len(seq2Global)), j |-> cellCol(k, Len(seq2Global))] :
      k \in 1..cellsDone }

\* the three candidates of a cell, read back from the score matrix
diagCandidate(c) ==
  sw.scoreMatrix[c.i - 1][c.j - 1]
    + (IF /\ cleanForComparison(seq1Global[c.i]) = cleanForComparison(seq2Global[c.j])
          /\ cleanForComparison(seq1Global[c.i]) # EMPTY
         THEN scoring.matchScore ELSE scoring.mismatchPenalty)

upCandidate(c) == sw.scoreMatrix[c.i - 1][c.j] + scoring.gapPenalty

leftCandidate(c) == sw.scoreMatrix[c.i][c.j - 1] + scoring.gapPenalty

scoreAt(c) == sw.scoreMatrix[c.i][c.j]

entryAt(c) == sw.tracebackMatrix[c.i][c.j]

\* C12: for every filled cell (i, j) with i >= 1 and j >= 1 the traceback entry
\* is none exactly when the score is 0; otherwise it is diagonal whenever the
\* score equals the diagonal candidate (even on a tie with up or left), else
\* up whenever the score equals the up candidate, else left.
C12_TracebackEntries ==
  \A c \in FilledCells :
    /\ (entryAt(c) = NULL) <=> (scoreAt(c) = 0)
    /\ scoreAt(c) # 0 =>
         entryAt(c) = IF scoreAt(c) = diagCandidate(c) THEN "diag"
                      ELSE IF scoreAt(c) = upCandidate(c) THEN "up"
                      ELSE "left"

\* a filled matrix with a cell whose diagonal and up candidates tie at a
\* positive score and that recorded diagonal, next to an up cell, a left cell
\* and a none cell
C12_Witness ==
  /\ pc = "smithWaterman"
  /\ cellsDone = Len(seq1Global) * Len(seq2Global)
  /\ \E c \in FilledCells :
       /\ scoreAt(c) > 0
       /\ scoreAt(c) = diagCandidate(c)
       /\ scoreAt(c) = upCandidate(c)
       /\ entryAt(c) = "diag"
  /\ \E c \in FilledCells : entryAt(c) = "up"
  /\ \E c \in FilledCells : entryAt(c) = "left"
  /\ \E c \in FilledCells : entryAt(c) = NULL

\* every cell of the matrix, row 0 and column 0 included
AllCells ==
  { [i |-> i, j |-> j] : i \in 0..Len(seq1Global), j \in 0..Len(seq2Global) }

MaxOfCells ==
  LET scores == {scoreAt(c) : c \in AllCells}
  IN  CHOOSE v \in scores : \A u \in scores : u <= v

\* c comes no later than d in the row-major scan
RowMajorNotAfter(c, d) == c.i < d.i \/ (c.i = d.i /\ c.j <= d.j)

\* smithWaterman has filled its last cell and returns
SwReturned ==
  pc = "smithWaterman" /\ cellsDone = Len(seq1Global) * Len(seq2Global)

\* C13: the best score smithWaterman returns is the maximum of all cells and
\* the best position is the first cell in row-major order holding it; when
\* the maximum is 0 the position stays (0, 0).
C13_BestScoreFirstMaximum ==
  SwReturned =>
    LET best == MaxOfCells
    IN  /\ sw.maxScore = best
        /\ scoreAt(sw.maxPos) = best
        /\ \A c \in AllCells : scoreAt(c) = best => RowMajorNotAfter(sw.maxPos, c)
        /\ best = 0 => sw.maxPos = [i |-> 0, j |-> 0]

\* a returned matrix whose positive maximum is held by two cells
C13_Witness ==
  /\ SwReturned
  /\ sw.maxScore > 0
  /\ \E c \in AllCells : c # sw.maxPos /\ scoreAt(c) = sw.maxScore

\* a returned matrix whose maximum is 0
C13_WitnessZero ==
  SwReturned /\ sw.maxScore = 0 /\ sw.maxPos = [i |-> 0, j |-> 0]

\* ------------------------------------------------------------------------
\* The words of the output after the missing-prefix recovery
\* ------------------------------------------------------------------------
\* the words found in the segments the run ends with
OutputWords ==
  Concat([k \in 1..Len(revisedSegments) |-> splitWords(revisedSegments[k])])

\* C16: after a complete sync run (remap followed by prefix recovery) the
\* total number of words over all output segments never exceeds the number
\* of revised words, also when the first segment received no aligned word
\* and the alignment lies entirely in later segments.
C16_NoWordEmittedTwice ==
  (RunDone /\ scoring = DefaultScoring)
     => Len(OutputWords) <= Len(seq2Global)

\* ------------------------------------------------------------------------
\* mapAlignmentToSegments called with cues that do not cover the original
\* words of the alignment
\* ------------------------------------------------------------------------
RemapVocab == {wa, wb}

\* the cue lists the function is called with: one cue, or several
RemapSubs ==
  { subsOf(<<words>>) : words \in SeqsUpTo(RemapVocab, MaxOrigWords) }
    \cup SubsUpTo(RemapVocab, MaxOrigWords, MaxCues)

\* the original word sequences the alignment is computed from: the words of
\* the cues, one word more, or one word less
OriginalsAgainst(subs) ==
  LET full == seq1GlobalOf(subs)
  IN  {full} \cup {Append(full, w) : w \in RemapVocab}
        \cup (IF Len(full) > 1 THEN {SubSeq(full, 1, Len(full) - 1)} ELSE {})

RemapInit ==
  \E subs \in RemapSubs :
    \E words \in OriginalsAgainst(subs) :
      \E tokens \in SeqsUpTo(RemapVocab, MaxRevisedWords - 1) :
        /\ parsedSubsOriginal = subs
        /\ seq1Global = words
        /\ seq2Global = tokens
        /\ scoring = DefaultScoring
        /\ sw = swStart(Len(words), Len(tokens))
        /\ cellsDone = 0
        /\ pc = "smithWaterman"
        /\ alignment = << >>
        /\ mappedSegments = << >>
        /\ revisedSegments = << >>
        /\ UiStart
        /\ BreakIdle

SpecRemap == RemapInit /\ [][AlignNext]_vars

\* the alignment refers to an original word past the last boundary
AlignmentPastBoundaries ==
  \E k \in 1..Len(alignment) :
    alignment[k].index1 >= wordCountBefore(parsedSubsOriginal, Len(parsedSubsOriginal))

\* a revised word carried by the alignment is in no returned segment
AlignedWordMissing ==
  \E w \in Range(CarriedWords) :
    Cardinality({k \in 1..Len(CarriedWords) : CarriedWords[k] = w})
      > Cardinality({k \in 1..Len(PlacedWords) : PlacedWords[k] = w})

\* C11: when the segment boundaries do not exactly partition
\* [0, total original word count), mapAlignmentToSegments does not return
\* per-segment text in which aligned revised words are missing (the function
\* has no other result than the segments, so failing fast would show as
\* such segments never being returned).
C11_InconsistentTableFailsFast ==
  (MapDone /\ ~BoundariesPartition) => ~AlignedWordMissing

\* ========================================================================
\* Properties of the page (Spec): events between the click and the callback
\* ========================================================================
\* the output of a run had alignment and formatting been done at the click
SynchronousOutput(run) ==
  LET result == smithWaterman(run.seq1Global, run.seq2Global, MATCH_SCORE,
                              MISMATCH_PENALTY, GAP_PENALTY)
      steps == traceback(run.seq1Global, run.seq2Global, result.scoreMatrix,
                         result.tracebackMatrix, result.maxPos)
      mapped == mapAlignmentToSegments(steps, run.parsedSubsOriginal,
                                       run.seq1Global)
      recovered == prefixRecovery(revisedWordsOf(run.revisedText), mapped)
  IN  displayResult(run.parsedSubsOriginal, recovered, run.headerAtClick,
                    run.formatAtClick).revisedSubtitleResult

\* C14: whatever is handled between the Sync click and the timer callback,
\* the subtitle output the callback produces equals the output of the same
\* run done synchronously at the click, in the format and with the header of
\* the file parsed for that run.
C14_DeferralIsPureScheduling ==
  [][ runsCompleted' = runsCompleted + 1
        => revisedSubtitleResult' = SynchronousOutput(Head(timers)) ]_vars

\* C15: whenever originalSubtitleContent is non-empty it is the content of
\* the most recently selected file and originalSubtitleFormat is that file's
\* extension.
C15_ContentMatchesLastSelection ==
  originalSubtitleContent # NoContent =>
    \E file \in Files :
      /\ file.name = originalSubtitleFileName
      /\ originalSubtitleContent = file.content
      /\ originalSubtitleFormat = extensionOf(file.name)

\* ========================================================================
\* breakLines on its own
\* ========================================================================
MaxTextLen == 5

BreakChars == {"a", "b", SPACE}

\* texts longer than the default maxChars: one word, and two words
LongWord == [k \in 1..(DEFAULT_MAX_CHARS + 1) |-> "x"]

LongSentence ==
  [k \in 1..30 |-> "a"] \o <<SPACE>> \o [k \in 1..30 |-> "b"]

\* the calls observed: short texts under small limits and under the default,
\* long texts under the default
BreakInputs ==
  { [text |-> t, maxChars |-> mc] :
      t \in {EMPTY} \cup SeqsUpTo(BreakChars, MaxTextLen),
      mc \in {2, 3, DEFAULT_MAX_CHARS} }
    \cup { [text |-> t, maxChars |-> DEFAULT_MAX_CHARS] : t \in {LongWord, LongSentence} }

BreakInit ==
  /\ \E inp \in BreakInputs :
       /\ breakText = inp.text
       /\ breakMaxChars = inp.maxChars
  /\ breakResult = << >>
  /\ UiStart
  /\ pc = "idle"
  /\ parsedSubsOriginal = << >>
  /\ seq1Global = << >>
  /\ seq2Global = << >>
  /\ scoring = DefaultScoring
  /\ sw = swStart(0, 0)
  /\ cellsDone = 0
  /\ alignment = << >>
  /\ mappedSegments = << >>
  /\ revisedSegments = << >>

\* the call breakLines(text, maxChars)
BreakLines ==
  /\ breakResult = << >>
  /\ breakResult' = breakLines(breakText, breakMaxChars)
  /\ UNCHANGED << breakText, breakMaxChars, alignVars, uiVars >>

SpecBreakLines == BreakInit /\ [][BreakLines]_vars

withoutSpaces(t) == SelectSeq(t, LAMBDA c : c # SPACE)

\* C17: for any cue text breakLines returns one or two lines and loses no
\* non-space character: the returned lines concatenated, spaces removed,
\* equal the text with its spaces removed, also for a text longer than
\* maxChars that has no space and is split at the middle.
C17_BreakLinesKeepsCharacters ==
  breakResult # << >> =>
    /\ Len(breakResult) \in {1, 2}
    /\ withoutSpaces(Concat(breakResult)) = withoutSpaces(breakText)

====
